---------------------------- MODULE Spec2Model ----------------------------
(***************************************************************************)
(* Matchmaking and signaling relay of avrkr/funapp.                        *)
(*                                                                         *)
(* The repository holds three server variants with the same matchmaking    *)
(* core and different transports and storage:                              *)
(*   "sse" : src/unnamed/part_001    in-memory registry, SSE + /api/signal *)
(*   "ws"  : src/server/server.js:1-234   in-memory registry, WebSocket    *)
(*   "db"  : src/server/server.js:235-658 MongoDB registry, SSE + signal   *)
(* The variable `variant` is fixed by Init and selects the handlers that   *)
(* may run.  Every handler is one action and handlers run one at a time,    *)
(* except in SpecAsync, where the handlers of the MongoDB variant are split *)
(* at their awaits and interleave as the event loop lets them.             *)
(* SpecBrowser is the candidate buffer of the browser client               *)
(* (src/unnamed/part_003), driven by the events one partner sends.         *)
(***************************************************************************)
EXTENDS Integers, Sequences, FiniteSets, TLC

\* ------------------------------------------------------------------ bounds
NumUsers == 3       \* client ids 1..NumUsers
MaxChan == 2        \* simultaneously open push requests per client id
MaxQueue == 4       \* queue length drawn for the pairing pass in SpecPair
MaxTasks == 2       \* handler invocations in flight at the same time in SpecAsync
MaxCand == 4        \* ICE candidates the partner sends during one call in SpecBrowser

\* `null` of the source: partner: null, partnerId: { default: null }
None == 0

Ids == 1..NumUsers
Chans == 1..MaxChan

\* The request bodies the model draws: data absent (None) or data present.
Payloads == {None, 1}

VARIABLES
    variant,          \* which server file is running
    users,            \* Map userId -> {partner} ("sse"), {ws, partner} ("ws")
    usersOrder,       \* insertion order of the keys of users, as forEach visits them ("ws")
    UserSession,      \* MongoDB collection: userId -> {partnerId, status} ("db")
    waitingUsers,     \* array of waiting user ids
    userConnections,  \* Map userId -> SSE response (a channel number)
    openReqs,         \* SSE requests <<userId, chan>> whose 'close' listener is pending
    broken,           \* <<userId, chan>>: the client's current response, whose write() throws
    scen,             \* monitor: the ids that opened a channel, in order, since the empty system; Off after any other event
    scenOut,          \* monitor: the writes made during the scenario
    sentReady,        \* monitor: ids that sent 'ready' to their current partner
    startCalls,       \* monitor: <<id, initiator>> of the start-call events written since then
    pass,             \* SpecPair: the queue drawn for one pairing pass, and whether it ran
    tasks,            \* SpecAsync: the handler invocations in flight, each at one of its awaits
    browser           \* SpecBrowser: one browser client: its peer connection and candidate buffer

vars == <<variant, users, usersOrder, UserSession, waitingUsers, userConnections, openReqs,
          broken, scen, scenOut, sentReady, startCalls, pass, tasks, browser>>

\* ---------------------------------------------------------------- helpers
\* Array.prototype.includes
Includes(arr, x) == \E i \in 1..Len(arr) : arr[i] = x

\* Array.prototype.indexOf, 1-based; 0 when absent (the source's -1)
IndexOf(arr, x) ==
    IF Includes(arr, x) THEN CHOOSE i \in 1..Len(arr) : arr[i] = x /\ \A j \in 1..(i-1) : arr[j] # x
    ELSE 0

\* waitingUsers.splice(index, 1)
Splice(arr, i) == SubSeq(arr, 1, i-1) \o SubSeq(arr, i+1, Len(arr))

\* const i = waitingUsers.indexOf(userId); if (i > -1) waitingUsers.splice(i, 1)
RemoveWaiting(arr, userId) ==
    IF IndexOf(arr, userId) > 0 THEN Splice(arr, IndexOf(arr, userId)) ELSE arr

\* Mutant of PushIfAbsent: the push without the membership test.
PushAlways(arr, x) == Append(arr, x)

\* if (!waitingUsers.includes(id)) waitingUsers.push(id)
PushIfAbsent(arr, x) == IF Includes(arr, x) THEN arr ELSE Append(arr, x)

\* Map.prototype.delete
MapDelete(m, k) == [x \in DOMAIN m \ {k} |-> m[x]]

\* Map.prototype.set
MapSet(m, k, v) == [x \in DOMAIN m \cup {k} |-> IF x = k THEN v ELSE m[x]]

EmptyMap == [x \in {} |-> None]

\* An outbound event {type, data: {partnerId | offer/answer/candidate, from}}.
Msg(type, partnerId, from, body) ==
    [type |-> type, partnerId |-> partnerId, from |-> from, body |-> body]

\* One entry of `out`: a write on channel ch of client `to`, or a send that was dropped.
Sent(to, ch, result, msg) == [to |-> to, ch |-> ch, result |-> result, msg |-> msg]

\* A handler invocation of the MongoDB variant, suspended at an await: the
\* handler (op), its userId, the await it waits at (pc), the two ids its pairing
\* pass has shifted, and the partner its findOne returned.
Task(op, id, pc) ==
    [op |-> op, id |-> id, pc |-> pc, user1 |-> None, user2 |-> None, partner |-> None]
IdleTask == Task("idle", None, "idle")
Slots == 1..MaxTasks

\* The browser client before a call: peerConnectionRef.current is null and
\* pendingCandidatesRef.current is []; no handler is at an await.
\*   pc                 peerConnectionRef.current: "none" (null) or "open"
\*   remoteDescription  pc.remoteDescription is set
\*   pendingCandidates  pendingCandidatesRef.current
\*   added              the candidates passed to pc.addIceCandidate, in call order
\*   handler            where handleOffer / handleAnswer waits: "setRemote", "flush"
\*   flushed            how many buffered candidates the flush loop has added
\*   stage              the events of the call delivered so far
\*   taken              monitor: the candidates that arrived while pc was not null
\*   next               the number of the next candidate to arrive
IdleBrowser ==
    [pc |-> "none", remoteDescription |-> FALSE, pendingCandidates |-> <<>>,
     added |-> <<>>, handler |-> "idle", flushed |-> 0,
     stage |-> "paired", taken |-> <<>>, next |-> 1]

\* The state a handler works on; out collects its sendToUser / res.write calls in order.
Cur == [users |-> users, usersOrder |-> usersOrder, UserSession |-> UserSession,
        waitingUsers |-> waitingUsers, userConnections |-> userConnections, out |-> <<>>]

\* ------------------------------------------------ "sse": src/unnamed/part_001
\* sendToUser: write to the client's current response, drop when there is none,
\* forget the response when the write throws.
sendToUser(st, userId, message) ==
    IF userId \in DOMAIN st.userConnections
    THEN LET connection == st.userConnections[userId] IN
         IF <<userId, connection>> \in broken
         THEN [st EXCEPT !.userConnections = MapDelete(st.userConnections, userId),
                         !.out = Append(st.out, Sent(userId, connection, "failed", message))]
         ELSE [st EXCEPT !.out = Append(st.out, Sent(userId, connection, "written", message))]
    ELSE [st EXCEPT !.out = Append(st.out, Sent(userId, None, "dropped", message))]

\* Mutant of pairUsers: the two newest waiting ids are taken (pop for shift).
RECURSIVE pairUsersNewest(_)
pairUsersNewest(st) ==
    IF Len(st.waitingUsers) < 2 THEN st
    ELSE LET n == Len(st.waitingUsers)
             user1 == st.waitingUsers[n]
             user2 == st.waitingUsers[n - 1]
             s0 == [st EXCEPT !.waitingUsers = SubSeq(st.waitingUsers, 1, n - 2)]
         IN IF user1 \in DOMAIN st.users /\ user2 \in DOMAIN st.users
            THEN LET s1 == [s0 EXCEPT !.users[user1].partner = user2]
                     s2 == [s1 EXCEPT !.users[user2].partner = user1]
                     s3 == sendToUser(s2, user1, Msg("user-connected", user2, None, None))
                     s4 == sendToUser(s3, user2, Msg("user-connected", user1, None, None))
                 IN pairUsersNewest(s4)
            ELSE pairUsersNewest(s0)

RECURSIVE pairUsers(_)
pairUsers(st) ==
    IF Len(st.waitingUsers) < 2 THEN st
    ELSE LET user1 == st.waitingUsers[1]
             user2 == st.waitingUsers[2]
             s0 == [st EXCEPT !.waitingUsers = SubSeq(st.waitingUsers, 3, Len(st.waitingUsers))]
         IN IF user1 \in DOMAIN st.users /\ user2 \in DOMAIN st.users
            THEN LET s1 == [s0 EXCEPT !.users[user1].partner = user2]
                     s2 == [s1 EXCEPT !.users[user2].partner = user1]
                     s3 == sendToUser(s2, user1, Msg("user-connected", user2, None, None))
                     s4 == sendToUser(s3, user2, Msg("user-connected", user1, None, None))
                 IN pairUsers(s4)
            ELSE pairUsers(s0)

\* Mutant of registerUser: the pairing pass after the registration is left out.
registerUserNoPass(st, userId) ==
    IF userId \notin DOMAIN st.users
    THEN [st EXCEPT !.users = MapSet(st.users, userId, [partner |-> None]),
                    !.waitingUsers = Append(st.waitingUsers, userId)]
    ELSE st

\* users.set(userId, {partner: null}); waitingUsers.push(userId); pairUsers()
registerUser(st, userId) ==
    IF userId \notin DOMAIN st.users
    THEN pairUsers([st EXCEPT !.users = MapSet(st.users, userId, [partner |-> None]),
                              !.waitingUsers = Append(st.waitingUsers, userId)])
    ELSE st

\* Pending requests of a client are numbered 1..n in the order they were opened;
\* the next request of userId gets the number n + 1.
NumOpen(userId) == Cardinality({c \in Chans : <<userId, c>> \in openReqs})
NewChan(userId) == NumOpen(userId) + 1

\* Request <<userId, c>> is over: the later requests of userId move down by one.
CloseReq(reqs, userId, c) ==
    {r \in reqs : r[1] # userId \/ r[2] < c} \cup
    {<<userId, r[2] - 1>> : r \in {q \in reqs : q[1] = userId /\ q[2] > c}}

\* Mutant of eventsOpen: connected is written after the registration and its
\* pairing pass.
eventsOpenAckLast(st, userId, c) ==
    LET s1 == registerUser([st EXCEPT !.userConnections = MapSet(st.userConnections, userId, c)], userId)
    IN [s1 EXCEPT !.out = Append(s1.out,
               Sent(userId, c, "written", Msg("connected", None, None, None)))]

\* GET /api/events: connected is written on the new response, then the response
\* becomes the client's connection and the client is registered if it is new.
eventsOpen(st, userId, c) ==
    LET s1 == [st EXCEPT !.out = Append(st.out,
                     Sent(userId, c, "written", Msg("connected", None, None, None)))]
        s2 == [s1 EXCEPT !.userConnections = MapSet(s1.userConnections, userId, c)]
    IN registerUser(s2, userId)

\* Mutant of eventsClose: the session of the closing client is not deleted.
eventsCloseKeepUser(st, userId) ==
    LET s1 == [st EXCEPT !.userConnections = MapDelete(st.userConnections, userId)]
        hasPartner == userId \in DOMAIN s1.users /\ s1.users[userId].partner # None
        p == s1.users[userId].partner
        s2 == IF hasPartner THEN sendToUser(s1, p, Msg("partner-disconnected", None, None, None)) ELSE s1
        s3 == IF hasPartner /\ p \in DOMAIN s2.users
              THEN [s2 EXCEPT !.users[p].partner = None,
                              !.waitingUsers = Append(s2.waitingUsers, p)]
              ELSE s2
        s4 == [s3 EXCEPT !.waitingUsers = RemoveWaiting(s3.waitingUsers, userId)]
    IN pairUsers(s4)

\* Mutant of eventsClose: the removal is not followed by a pairing pass.
eventsCloseNoPass(st, userId) ==
    LET s1 == [st EXCEPT !.userConnections = MapDelete(st.userConnections, userId)]
        hasPartner == userId \in DOMAIN s1.users /\ s1.users[userId].partner # None
        p == s1.users[userId].partner
        s2 == IF hasPartner THEN sendToUser(s1, p, Msg("partner-disconnected", None, None, None)) ELSE s1
        s3 == IF hasPartner /\ p \in DOMAIN s2.users
              THEN [s2 EXCEPT !.users[p].partner = None,
                              !.waitingUsers = Append(s2.waitingUsers, p)]
              ELSE s2
    IN [s3 EXCEPT !.users = MapDelete(s3.users, userId),
                  !.waitingUsers = RemoveWaiting(s3.waitingUsers, userId)]

\* req.on('close')
eventsClose(st, userId) ==
    LET s1 == [st EXCEPT !.userConnections = MapDelete(st.userConnections, userId)]
        hasPartner == userId \in DOMAIN s1.users /\ s1.users[userId].partner # None
        p == s1.users[userId].partner
        s2 == IF hasPartner THEN sendToUser(s1, p, Msg("partner-disconnected", None, None, None)) ELSE s1
        s3 == IF hasPartner /\ p \in DOMAIN s2.users
              THEN [s2 EXCEPT !.users[p].partner = None,
                              !.waitingUsers = Append(s2.waitingUsers, p)]
              ELSE s2
        s4 == [s3 EXCEPT !.users = MapDelete(s3.users, userId),
                         !.waitingUsers = RemoveWaiting(s3.waitingUsers, userId)]
    IN pairUsers(s4)

\* Mutant of relaySignal: a partner without connection is taken for gone and the
\* sender is put back into the queue.
relaySignalRequeue(st, userId, type, data) ==
    IF userId \in DOMAIN st.users /\ st.users[userId].partner # None
       /\ (type = "ice-candidate" => data # None)
    THEN IF st.users[userId].partner \in DOMAIN st.userConnections
         THEN sendToUser(st, st.users[userId].partner, Msg(type, None, userId, data))
         ELSE [st EXCEPT !.waitingUsers = Append(st.waitingUsers, userId)]
    ELSE st

\* Mutant of relaySignal: the message goes back to the sender, not to the partner.
relaySignalEcho(st, userId, type, data) ==
    IF userId \in DOMAIN st.users /\ st.users[userId].partner # None
       /\ (type = "ice-candidate" => data # None)
    THEN sendToUser(st, userId, Msg(type, None, userId, data))
    ELSE st

\* offer / answer / ice-candidate of POST /api/signal
relaySignal(st, userId, type, data) ==
    IF userId \in DOMAIN st.users /\ st.users[userId].partner # None
       /\ (type = "ice-candidate" => data # None)
    THEN sendToUser(st, st.users[userId].partner, Msg(type, None, userId, data))
    ELSE st

\* Mutant of nextUser: a sender with no partner is enqueued too.
nextUserUnguarded(st, userId) ==
    IF userId \in DOMAIN st.users
    THEN LET p == st.users[userId].partner
             s1 == IF p # None
                   THEN sendToUser(st, p, Msg("partner-disconnected", None, None, None))
                   ELSE st
             s2 == IF p # None /\ p \in DOMAIN s1.users
                   THEN [s1 EXCEPT !.users[p].partner = None,
                                   !.waitingUsers = Append(s1.waitingUsers, p)]
                   ELSE s1
             s3 == [s2 EXCEPT !.users[userId].partner = None,
                              !.waitingUsers = Append(s2.waitingUsers, userId)]
         IN pairUsers(s3)
    ELSE st

\* Mutant of nextUser: the pairing pass runs before the partner is told.
nextUserNoticeLast(st, userId) ==
    IF userId \in DOMAIN st.users /\ st.users[userId].partner # None
    THEN LET p == st.users[userId].partner
             s2 == IF p \in DOMAIN st.users
                   THEN [st EXCEPT !.users[p].partner = None,
                                   !.waitingUsers = Append(st.waitingUsers, p)]
                   ELSE st
             s3 == [s2 EXCEPT !.users[userId].partner = None,
                              !.waitingUsers = Append(s2.waitingUsers, userId)]
         IN sendToUser(pairUsers(s3), p, Msg("partner-disconnected", None, None, None))
    ELSE st

\* Mutant of nextUser: the skipper is pushed before the partner it skipped.
nextUserSkipperFirst(st, userId) ==
    IF userId \in DOMAIN st.users /\ st.users[userId].partner # None
    THEN LET p == st.users[userId].partner
             s1 == sendToUser(st, p, Msg("partner-disconnected", None, None, None))
             s2 == [s1 EXCEPT !.users[userId].partner = None,
                              !.waitingUsers = Append(s1.waitingUsers, userId)]
             s3 == IF p \in DOMAIN s2.users
                   THEN [s2 EXCEPT !.users[p].partner = None,
                                   !.waitingUsers = Append(s2.waitingUsers, p)]
                   ELSE s2
         IN pairUsers(s3)
    ELSE st

\* case 'next-user'
nextUser(st, userId) ==
    IF userId \in DOMAIN st.users /\ st.users[userId].partner # None
    THEN LET p == st.users[userId].partner
             s1 == sendToUser(st, p, Msg("partner-disconnected", None, None, None))
             s2 == IF p \in DOMAIN s1.users
                   THEN [s1 EXCEPT !.users[p].partner = None,
                                   !.waitingUsers = Append(s1.waitingUsers, p)]
                   ELSE s1
             s3 == [s2 EXCEPT !.users[userId].partner = None,
                              !.waitingUsers = Append(s2.waitingUsers, userId)]
         IN pairUsers(s3)
    ELSE st

\* setInterval(..., 30000) of request <<userId, c>>: while the client has a
\* connection, a heartbeat is written on the request's own response.
heartbeat(st, userId, c) ==
    IF userId \in DOMAIN st.userConnections
    THEN [st EXCEPT !.out = Append(st.out,
               Sent(userId, c, IF <<userId, c>> \in broken THEN "failed" ELSE "written",
                    Msg("heartbeat", None, None, None)))]
    ELSE st

\* The signal types the model draws; "ready" and "bogus" reach the default case.
SignalTypes == {"offer", "answer", "ice-candidate", "next-user", "join", "ready", "bogus"}

\* Mutant of signal: a type the switch does not know is taken for next-user.
signalDefaultNext(st, userId, type, data) ==
    CASE type \in {"offer", "answer", "ice-candidate"} -> relaySignal(st, userId, type, data)
      [] type = "join" -> registerUser(st, userId)
      [] OTHER -> nextUser(st, userId)

\* POST /api/signal, the switch on type
signal(st, userId, type, data) ==
    CASE type \in {"offer", "answer", "ice-candidate"} -> relaySignal(st, userId, type, data)
      [] type = "next-user" -> nextUser(st, userId)
      [] type = "join" -> registerUser(st, userId)
      [] OTHER -> st

\* ------------------------------------------- "ws": src/server/server.js:1-234
\* sendToUser: only to a registered user whose socket is OPEN.
sendToUserWs(st, userId, message) ==
    IF userId \in DOMAIN st.users /\ st.users[userId].ws = "OPEN"
    THEN [st EXCEPT !.out = Append(st.out, Sent(userId, 1, "written", message))]
    ELSE [st EXCEPT !.out = Append(st.out, Sent(userId, None, "dropped", message))]

\* Mutant of rescanWs: every user with no partner is pushed, waiting or not.
RECURSIVE rescanWsNoCheck(_, _)
rescanWsNoCheck(st, order) ==
    IF order = <<>> THEN st
    ELSE LET userId == Head(order) IN
         IF st.users[userId].partner = None
         THEN rescanWsNoCheck([st EXCEPT !.waitingUsers = Append(st.waitingUsers, userId)], Tail(order))
         ELSE rescanWsNoCheck(st, Tail(order))

\* users.forEach(...): push every user with no partner that is not waiting,
\* in the Map's insertion order.
RECURSIVE rescanWs(_, _)
rescanWs(st, order) ==
    IF order = <<>> THEN st
    ELSE LET userId == Head(order) IN
         IF st.users[userId].partner = None /\ ~Includes(st.waitingUsers, userId)
         THEN rescanWs([st EXCEPT !.waitingUsers = Append(st.waitingUsers, userId)], Tail(order))
         ELSE rescanWs(st, Tail(order))

RECURSIVE pairLoopWs(_)
pairLoopWs(st) ==
    IF Len(st.waitingUsers) < 2 THEN st
    ELSE LET user1 == st.waitingUsers[1]
             user2 == st.waitingUsers[2]
             s0 == [st EXCEPT !.waitingUsers = SubSeq(st.waitingUsers, 3, Len(st.waitingUsers))]
         IN IF user1 \in DOMAIN st.users /\ user2 \in DOMAIN st.users
            THEN LET s1 == [s0 EXCEPT !.users[user1].partner = user2]
                     s2 == [s1 EXCEPT !.users[user2].partner = user1]
                     s3 == sendToUserWs(s2, user1, Msg("user-connected", user2, None, None))
                     s4 == sendToUserWs(s3, user2, Msg("user-connected", user1, None, None))
                 IN pairLoopWs(s4)
            ELSE pairLoopWs(s0)

pairUsersWs(st) == LET s1 == pairLoopWs(st) IN rescanWs(s1, s1.usersOrder)

\* wss.on('connection'): a new id, registered, told its id, then a pairing pass.
connectionWs(st, userId) ==
    LET s1 == [st EXCEPT !.users = MapSet(st.users, userId, [ws |-> "OPEN", partner |-> None]),
                         !.usersOrder = Append(st.usersOrder, userId)]
        s2 == sendToUserWs(s1, userId, Msg("user-id", None, None, None))
    IN pairUsersWs(s2)

\* ws.on('close')
closeWs(st, userId) ==
    LET hasPartner == userId \in DOMAIN st.users /\ st.users[userId].partner # None
        p == st.users[userId].partner
        s1 == IF hasPartner THEN sendToUserWs(st, p, Msg("partner-disconnected", None, None, None)) ELSE st
        s2 == IF hasPartner /\ p \in DOMAIN s1.users
              THEN [s1 EXCEPT !.users[p].partner = None,
                              !.waitingUsers = Append(s1.waitingUsers, p)]
              ELSE s1
        s3 == [s2 EXCEPT !.users = MapDelete(s2.users, userId),
                         !.usersOrder = RemoveWaiting(s2.usersOrder, userId),
                         !.waitingUsers = RemoveWaiting(s2.waitingUsers, userId)]
    IN pairUsersWs(s3)

\* The message types the model draws; "join", "ready" and "bogus" reach the default case.
MessageTypes == {"offer", "answer", "ice-candidate", "next-user", "join", "ready", "bogus"}

\* handleMessage
handleMessage(st, userId, type, data) ==
    LET hasPartner == userId \in DOMAIN st.users /\ st.users[userId].partner # None
        p == st.users[userId].partner
    IN CASE type \in {"offer", "answer", "ice-candidate"} ->
              IF hasPartner THEN sendToUserWs(st, p, Msg(type, None, userId, data)) ELSE st
         [] type = "next-user" ->
              IF hasPartner
              THEN LET s1 == sendToUserWs(st, p, Msg("partner-disconnected", None, None, None))
                       s2 == IF p \in DOMAIN s1.users
                             THEN [s1 EXCEPT !.users[p].partner = None,
                                             !.waitingUsers = Append(s1.waitingUsers, p)]
                             ELSE s1
                       s3 == [s2 EXCEPT !.users[userId].partner = None,
                                        !.waitingUsers = Append(s2.waitingUsers, userId)]
                   IN pairUsersWs(s3)
              ELSE st
         [] OTHER -> st

\* ----------------------------------------- "db": src/server/server.js:235-658
\* UserSession.updateOne({userId}, fields): changes the document if there is one.
updateOne(st, userId, partnerId, status) ==
    IF userId \in DOMAIN st.UserSession
    THEN [st EXCEPT !.UserSession[userId] = [partnerId |-> partnerId, status |-> status]]
    ELSE st

\* UserSession.updateOne({userId}, {status}): the partnerId is kept.
updateStatus(st, userId, status) ==
    IF userId \in DOMAIN st.UserSession
    THEN [st EXCEPT !.UserSession[userId].status = status]
    ELSE st

sendToUserDb(st, userId, message) == sendToUser(st, userId, message)

RECURSIVE pairUsersDb(_)
pairUsersDb(st) ==
    IF Len(st.waitingUsers) < 2 THEN st
    ELSE LET user1 == st.waitingUsers[1]
             user2 == st.waitingUsers[2]
             s0 == [st EXCEPT !.waitingUsers = SubSeq(st.waitingUsers, 3, Len(st.waitingUsers))]
             s1 == updateOne(s0, user1, user2, "connected")
             s2 == updateOne(s1, user2, user1, "connected")
             s3 == sendToUserDb(s2, user1, Msg("user-connected", user2, None, None))
             s4 == sendToUserDb(s3, user2, Msg("user-connected", user1, None, None))
         IN pairUsersDb(s4)

\* GET /api/events
eventsOpenDb(st, userId, c) ==
    LET s1 == IF userId \in DOMAIN st.UserSession
              THEN updateStatus(st, userId, "waiting")
              ELSE [st EXCEPT !.UserSession = MapSet(st.UserSession, userId,
                                    [partnerId |-> None, status |-> "waiting"])]
        s2 == [s1 EXCEPT !.out = Append(s1.out,
                     Sent(userId, c, "written", Msg("connected", None, None, None)))]
        s3 == [s2 EXCEPT !.userConnections = MapSet(s2.userConnections, userId, c),
                         !.waitingUsers = PushIfAbsent(s2.waitingUsers, userId)]
    IN pairUsersDb(s3)

\* req.on('close')
eventsCloseDb(st, userId) ==
    LET s1 == [st EXCEPT !.userConnections = MapDelete(st.userConnections, userId),
                         !.waitingUsers = RemoveWaiting(st.waitingUsers, userId)]
        hasPartner == userId \in DOMAIN s1.UserSession /\ s1.UserSession[userId].partnerId # None
        p == s1.UserSession[userId].partnerId
        s2 == IF hasPartner
              THEN LET t1 == sendToUserDb(s1, p, Msg("partner-disconnected", None, None, None))
                       t2 == updateOne(t1, p, None, "waiting")
                   IN [t2 EXCEPT !.waitingUsers = PushIfAbsent(t2.waitingUsers, p)]
              ELSE s1
        s3 == updateOne(s2, userId, None, "disconnected")
    IN pairUsersDb(s3)

heartbeatDb(st, userId, c) == heartbeat(st, userId, c)

\* POST /api/signal: 404 'User not found' for a sender with no session document
signalStatusDb(st, userId) == IF userId \in DOMAIN st.UserSession THEN "ok" ELSE "User not found"

\* POST /api/signal, the switch on type; nothing runs for a sender with no session
signalDb(st, userId, type, data) ==
    IF userId \notin DOMAIN st.UserSession THEN st ELSE
    LET p == st.UserSession[userId].partnerId
    IN CASE type \in {"offer", "answer"} ->
              IF p # None THEN sendToUserDb(st, p, Msg(type, None, userId, data)) ELSE st
         [] type = "ice-candidate" ->
              IF p # None /\ data # None
              THEN sendToUserDb(st, p, Msg(type, None, userId, data)) ELSE st
         [] type = "next-user" ->
              IF p # None
              THEN LET s1 == sendToUserDb(st, p, Msg("partner-disconnected", None, None, None))
                       s2 == updateOne(s1, p, None, "waiting")
                       s3 == [s2 EXCEPT !.waitingUsers = PushIfAbsent(s2.waitingUsers, p)]
                       s4 == updateOne(s3, userId, None, "waiting")
                       s5 == [s4 EXCEPT !.waitingUsers = PushIfAbsent(s4.waitingUsers, userId)]
                   IN pairUsersDb(s5)
              ELSE st
         [] type = "join" ->
              LET s1 == updateStatus(st, userId, "waiting")
                  s2 == [s1 EXCEPT !.waitingUsers = PushIfAbsent(s1.waitingUsers, userId)]
              IN pairUsersDb(s2)
         [] OTHER -> st

\* GET /api/user-id: a new session document, not queued.
userIdDb(st, userId) ==
    [st EXCEPT !.UserSession = MapSet(st.UserSession, userId,
                                      [partnerId |-> None, status |-> "waiting"])]

\* The cleanup interval: UserSession.deleteMany({lastActive: {$lt: fiveMinutesAgo}})
cleanupDb(st, stale) ==
    [st EXCEPT !.UserSession = [x \in DOMAIN st.UserSession \ stale |-> st.UserSession[x]]]

\* ------------------------------------------------------ registry, any variant
Variants == {"sse", "ws", "db"}

RegistryIn(st) == IF variant = "db" THEN st.UserSession ELSE st.users
PartnerIn(st, u) == IF variant = "db" THEN st.UserSession[u].partnerId ELSE st.users[u].partner

Registry == RegistryIn(Cur)
PartnerOf(u) == PartnerIn(Cur, u)
HasPartner(u) == u \in DOMAIN Registry /\ PartnerOf(u) # None

\* A generated id (generateUserId, uuidv4) is one the server holds nothing about.
Fresh(u) ==
    /\ u \notin DOMAIN users
    /\ u \notin DOMAIN UserSession
    /\ u \notin DOMAIN userConnections
    /\ ~Includes(waitingUsers, u)
    /\ \A c \in Chans : <<u, c>> \notin openReqs
    /\ \A x \in DOMAIN Registry : PartnerOf(x) # u

\* ------------------------------------------------------------------ monitors
\* The clients that a pairing or a disconnect notice of the handler names.
Touched(st) ==
    {st.out[i].to : i \in {j \in 1..Len(st.out) :
                              st.out[j].msg.type \in {"user-connected", "partner-disconnected"}}}

\* The scenario followed: ScenarioLen clients open their channel one after the
\* other, starting from the empty system.
Scenario == <<"u1", "u2", "u3">>
ScenarioLen == Len(Scenario)
Off == <<None>>
Joined == {scen[i] : i \in 1..Len(scen)}

\* A response is remembered as broken only while it is the client's connection.
CurrentOnly(b, conns) == {r \in b : r[1] \in DOMAIN conns /\ conns[r[1]] = r[2]}

\* The handler's result becomes the next state; the monitors follow it.
Apply(st, op, id, type) ==
    /\ users' = st.users
    /\ usersOrder' = st.usersOrder
    /\ UserSession' = st.UserSession
    /\ waitingUsers' = st.waitingUsers
    /\ userConnections' = st.userConnections
    /\ broken' = CurrentOnly(broken, st.userConnections)
    /\ scen' = IF scen # Off /\ Len(scen) < ScenarioLen /\ op = "open" /\ id \notin Joined
               THEN Append(scen, id)
               ELSE IF scen # Off /\ op = "user-id" THEN scen ELSE Off
    /\ scenOut' = IF scen' = Off THEN <<>> ELSE scenOut \o st.out
    /\ sentReady' =
         LET new == IF op = "signal" /\ type = "ready" /\ HasPartner(id) THEN {id} ELSE {}
         IN {x \in sentReady \cup new :
               /\ x \in DOMAIN RegistryIn(st)
               /\ HasPartner(x)
               /\ PartnerIn(st, x) = PartnerOf(x)
               /\ x \notin Touched(st)
               /\ PartnerOf(x) \notin Touched(st)}
    /\ startCalls' =
         {sc \in startCalls : sc[1] \in sentReady'} \cup
         {<<st.out[i].to, st.out[i].msg.body>> :
             i \in {j \in 1..Len(st.out) : st.out[j].msg.type = "start-call"
                                            /\ st.out[j].result = "written"}}

\* ------------------------------------------------------------------- actions
Init ==
    /\ variant \in Variants
    /\ users = EmptyMap
    /\ usersOrder = <<>>
    /\ UserSession = EmptyMap
    /\ waitingUsers = <<>>
    /\ userConnections = EmptyMap
    /\ openReqs = {}
    /\ broken = {}
    /\ scen = <<>>
    /\ scenOut = <<>>
    /\ sentReady = {}
    /\ startCalls = {}
    /\ pass = [state |-> "idle", input |-> <<>>]
    /\ tasks = [s \in Slots |-> IdleTask]
    /\ browser = IdleBrowser

DataFor(type) == IF type \in {"offer", "answer", "ice-candidate"} THEN Payloads ELSE {None}

\* "sse" ----------------------------------------------------------------------
SseOpen(u) ==
    /\ variant = "sse"
    /\ NewChan(u) \in Chans
    /\ openReqs' = openReqs \cup {<<u, NewChan(u)>>}
    /\ Apply(eventsOpen(Cur, u, NewChan(u)), "open", u, "events")
    /\ UNCHANGED <<variant, pass, tasks, browser>>

SseClose(u, c) ==
    /\ variant = "sse"
    /\ <<u, c>> \in openReqs
    /\ openReqs' = CloseReq(openReqs, u, c)
    /\ Apply(eventsClose(Cur, u), "close", u, "close")
    /\ UNCHANGED <<variant, pass, tasks, browser>>

SseSignal(u, type, data) ==
    /\ variant = "sse"
    /\ Apply(signal(Cur, u, type, data), "signal", u, type)
    /\ UNCHANGED <<variant, openReqs, pass, tasks, browser>>

SseHeartbeat(u, c) ==
    /\ variant = "sse"
    /\ <<u, c>> \in openReqs
    /\ u \in DOMAIN userConnections
    /\ Apply(heartbeat(Cur, u, c), "heartbeat", u, "heartbeat")
    /\ UNCHANGED <<variant, openReqs, pass, tasks, browser>>

\* The client's current response starts to throw on write (sendToUser's catch).
SseBreak(u) ==
    /\ variant = "sse"
    /\ u \in DOMAIN userConnections
    /\ <<u, userConnections[u]>> \notin broken
    /\ broken' = broken \cup {<<u, userConnections[u]>>}
    /\ scen' = Off
    /\ scenOut' = <<>>
    /\ UNCHANGED <<variant, users, usersOrder, UserSession, waitingUsers, userConnections,
                   openReqs, sentReady, startCalls, pass, tasks, browser>>

NextSse ==
    \/ \E u \in Ids : SseOpen(u)
    \/ \E u \in Ids, c \in Chans : SseClose(u, c)
    \/ \E u \in Ids, type \in SignalTypes : \E data \in DataFor(type) : SseSignal(u, type, data)
    \/ \E u \in Ids, c \in Chans : SseHeartbeat(u, c)
    \/ \E u \in Ids : SseBreak(u)

\* "ws" -----------------------------------------------------------------------
WsConnection(u) ==
    /\ variant = "ws"
    /\ Fresh(u)
    /\ Apply(connectionWs(Cur, u), "open", u, "connection")
    /\ UNCHANGED <<variant, openReqs, pass, tasks, browser>>

\* The peer starts the closing handshake: readyState leaves OPEN before 'close' fires.
WsClosing(u) ==
    /\ variant = "ws"
    /\ u \in DOMAIN users
    /\ users[u].ws = "OPEN"
    /\ Apply([Cur EXCEPT !.users[u].ws = "CLOSING"], "closing", u, "closing")
    /\ UNCHANGED <<variant, openReqs, pass, tasks, browser>>

WsClose(u) ==
    /\ variant = "ws"
    /\ u \in DOMAIN users
    /\ Apply(closeWs(Cur, u), "close", u, "close")
    /\ UNCHANGED <<variant, openReqs, pass, tasks, browser>>

WsMessage(u, type, data) ==
    /\ variant = "ws"
    /\ u \in DOMAIN users
    /\ users[u].ws = "OPEN"
    /\ Apply(handleMessage(Cur, u, type, data), "signal", u, type)
    /\ UNCHANGED <<variant, openReqs, pass, tasks, browser>>

NextWs ==
    \/ \E u \in Ids : WsConnection(u)
    \/ \E u \in Ids : WsClosing(u)
    \/ \E u \in Ids : WsClose(u)
    \/ \E u \in Ids, type \in MessageTypes : \E data \in DataFor(type) : WsMessage(u, type, data)

\* "db" -----------------------------------------------------------------------
DbOpen(u) ==
    /\ variant = "db"
    /\ NewChan(u) \in Chans
    /\ openReqs' = openReqs \cup {<<u, NewChan(u)>>}
    /\ Apply(eventsOpenDb(Cur, u, NewChan(u)), "open", u, "events")
    /\ UNCHANGED <<variant, pass, tasks, browser>>

DbClose(u, c) ==
    /\ variant = "db"
    /\ <<u, c>> \in openReqs
    /\ openReqs' = CloseReq(openReqs, u, c)
    /\ Apply(eventsCloseDb(Cur, u), "close", u, "close")
    /\ UNCHANGED <<variant, pass, tasks, browser>>

DbSignal(u, type, data) ==
    /\ variant = "db"
    /\ Apply(signalDb(Cur, u, type, data), "signal", u, type)
    /\ UNCHANGED <<variant, openReqs, pass, tasks, browser>>

DbHeartbeat(u, c) ==
    /\ variant = "db"
    /\ <<u, c>> \in openReqs
    /\ u \in DOMAIN userConnections
    /\ Apply(heartbeatDb(Cur, u, c), "heartbeat", u, "heartbeat")
    /\ UNCHANGED <<variant, openReqs, pass, tasks, browser>>

DbUserId(u) ==
    /\ variant = "db"
    /\ Fresh(u)
    /\ Apply(userIdDb(Cur, u), "user-id", u, "user-id")
    /\ UNCHANGED <<variant, openReqs, pass, tasks, browser>>

\* A session whose client holds a working connection is kept fresh by the
\* heartbeat (lastActive every 30 s); any other session may pass the five minutes.
DbCleanup(u) ==
    /\ variant = "db"
    /\ u \in DOMAIN UserSession
    /\ u \in DOMAIN userConnections => <<u, userConnections[u]>> \in broken
    /\ Apply(cleanupDb(Cur, {u}), "cleanup", u, "cleanup")
    /\ UNCHANGED <<variant, openReqs, pass, tasks, browser>>

\* The client's current response starts to throw on write (sendToUser's catch).
DbBreak(u) ==
    /\ variant = "db"
    /\ u \in DOMAIN userConnections
    /\ <<u, userConnections[u]>> \notin broken
    /\ broken' = broken \cup {<<u, userConnections[u]>>}
    /\ scen' = Off
    /\ scenOut' = <<>>
    /\ UNCHANGED <<variant, users, usersOrder, UserSession, waitingUsers, userConnections,
                   openReqs, sentReady, startCalls, pass, tasks, browser>>

NextDb ==
    \/ \E u \in Ids : DbOpen(u)
    \/ \E u \in Ids, c \in Chans : DbClose(u, c)
    \/ \E u \in Ids, type \in SignalTypes : \E data \in DataFor(type) : DbSignal(u, type, data)
    \/ \E u \in Ids, c \in Chans : DbHeartbeat(u, c)
    \/ \E u \in Ids : DbUserId(u)
    \/ \E u \in Ids : DbCleanup(u)
    \/ \E u \in Ids : DbBreak(u)

Next == NextSse \/ NextWs \/ NextDb

Spec == Init /\ [][Next]_vars
InitSse == Init /\ variant = "sse"
InitWs == Init /\ variant = "ws"
InitDb == Init /\ variant = "db"

SpecSse == InitSse /\ [][NextSse]_vars
SpecWs == InitWs /\ [][NextWs]_vars
SpecDb == InitDb /\ [][NextDb]_vars

\* ------------------------------------------------- one pairing pass, alone
\* The pairing pass of the running variant.
PairingPass(st) ==
    CASE variant = "sse" -> pairUsers(st)
      [] variant = "ws" -> pairUsersWs(st)
      [] variant = "db" -> pairUsersDb(st)

PairIds == 1..MaxQueue

\* The queues drawn: up to MaxQueue different ids in arrival order.
PairQueues ==
    {q \in UNION {[1..n -> PairIds] : n \in 0..MaxQueue} :
        \A i \in 1..Len(q), j \in 1..Len(q) : q[i] = q[j] => i = j}

\* Every waiting id is a live client with no partner and an open channel.
InitPair ==
    \E q \in PairQueues :
        LET live == {q[i] : i \in 1..Len(q)} IN
        /\ variant \in Variants
        /\ waitingUsers = q
        /\ users = IF variant = "sse" THEN [u \in live |-> [partner |-> None]]
                   ELSE IF variant = "ws" THEN [u \in live |-> [ws |-> "OPEN", partner |-> None]]
                   ELSE EmptyMap
        /\ usersOrder = IF variant = "ws" THEN q ELSE <<>>
        /\ UserSession = IF variant = "db"
                         THEN [u \in live |-> [partnerId |-> None, status |-> "waiting"]]
                         ELSE EmptyMap
        /\ userConnections = IF variant = "ws" THEN EmptyMap ELSE [u \in live |-> 1]
        /\ openReqs = IF variant = "ws" THEN {} ELSE {<<u, 1>> : u \in live}
        /\ broken = {}
        /\ scen = Off
        /\ scenOut = <<>>
        /\ sentReady = {}
        /\ startCalls = {}
        /\ pass = [state |-> "drawn", input |-> q]
        /\ tasks = [s \in Slots |-> IdleTask]
        /\ browser = IdleBrowser

PairPass ==
    /\ pass.state = "drawn"
    /\ Apply(PairingPass(Cur), "pair", None, "pair")
    /\ pass' = [pass EXCEPT !.state = "done"]
    /\ UNCHANGED <<variant, openReqs, tasks, browser>>

SpecPair == InitPair /\ [][PairPass]_vars

\* ------------------------------------------- the joins of the scenario, alone
MaxJoin == 4
JoinIds == 1..MaxJoin

\* Only the scenario runs: a client that has not joined yet gets its id (where the
\* server hands out ids) or opens its channel.
JoinStep ==
    /\ scen # Off /\ Len(scen) < ScenarioLen
    /\ \E u \in JoinIds \ Joined : SseOpen(u) \/ WsConnection(u) \/ DbOpen(u) \/ DbUserId(u)

SpecJoin == Init /\ [][JoinStep]_vars

\* --------------------------------------- the handlers of the running variant
OpenEnabled(u) == IF variant = "ws" THEN Fresh(u) ELSE NewChan(u) \in Chans
OpenResult(u) ==
    CASE variant = "sse" -> eventsOpen(Cur, u, NewChan(u))
      [] variant = "db" -> eventsOpenDb(Cur, u, NewChan(u))
      [] variant = "ws" -> connectionWs(Cur, u)

CloseEnabled(u) == IF variant = "ws" THEN u \in DOMAIN users ELSE <<u, 1>> \in openReqs
CloseResult(u) ==
    CASE variant = "sse" -> eventsClose(Cur, u)
      [] variant = "db" -> eventsCloseDb(Cur, u)
      [] variant = "ws" -> closeWs(Cur, u)

SignalEnabled(u) == variant = "ws" => (u \in DOMAIN users /\ users[u].ws = "OPEN")
SignalResult(u, type, data) ==
    CASE variant = "sse" -> signal(Cur, u, type, data)
      [] variant = "db" -> signalDb(Cur, u, type, data)
      [] variant = "ws" -> handleMessage(Cur, u, type, data)

\* res.json({status: 'ok'}) of POST /api/signal in part_001: there is no other
\* answer for a request that names a user id and a type.
signalStatus(st, userId) == "ok"

\* What the caller of a signal gets back; a WebSocket message has no answer.
SignalResponse(u) ==
    CASE variant = "sse" -> signalStatus(Cur, u)
      [] variant = "db" -> signalStatusDb(Cur, u)
      [] variant = "ws" -> "none"

RelayTypes == {"offer", "answer", "ice-candidate"}

\* The handler left the registry, the queue and the connections as they are.
SameState(st) ==
    /\ st.users = users /\ st.usersOrder = usersOrder /\ st.UserSession = UserSession
    /\ st.waitingUsers = waitingUsers /\ st.userConnections = userConnections

\* The client has no channel to be written to.
NoChannel(u) ==
    IF variant = "ws" THEN ~(u \in DOMAIN users /\ users[u].ws = "OPEN")
    ELSE u \notin DOMAIN userConnections

\* GET /api/events of u in the state a handler left (the WebSocket server gives
\* every connection a new id: no client comes back under its id).
OpenAfter(st, u) ==
    CASE variant = "sse" -> eventsOpen([st EXCEPT !.out = <<>>], u, NewChan(u))
      [] variant = "db" -> eventsOpenDb([st EXCEPT !.out = <<>>], u, NewChan(u))
      [] variant = "ws" -> [st EXCEPT !.out = <<>>]

\* The close handler of u run in the state a handler left.
CloseAfter(st, u) ==
    CASE variant = "sse" -> eventsClose([st EXCEPT !.out = <<>>], u)
      [] variant = "db" -> eventsCloseDb([st EXCEPT !.out = <<>>], u)
      [] variant = "ws" -> closeWs([st EXCEPT !.out = <<>>], u)

\* Two handler results agree on the registry, the queue and the connections.
SameTables(s, t) ==
    /\ s.users = t.users /\ s.usersOrder = t.usersOrder /\ s.UserSession = t.UserSession
    /\ s.waitingUsers = t.waitingUsers /\ s.userConnections = t.userConnections

\* The heartbeat tick of request <<u, c>>.
HeartbeatResult(u, c) ==
    IF variant = "db" THEN heartbeatDb(Cur, u, c) ELSE heartbeat(Cur, u, c)

\* Every result a handler can produce from the current state.
HandlerResults ==
    {OpenResult(u) : u \in {x \in Ids : OpenEnabled(x)}} \cup
    {CloseResult(u) : u \in {x \in Ids : CloseEnabled(x)}} \cup
    {SignalResult(r[1], r[2], r[3]) :
        r \in {q \in Ids \X SignalTypes \X Payloads : SignalEnabled(q[1]) /\ q[3] \in DataFor(q[2])}}

\* The client has somewhere to be written to: a working connection, or an OPEN socket.
Reachable(u) ==
    IF variant = "ws" THEN u \in DOMAIN users /\ users[u].ws = "OPEN"
    ELSE u \in DOMAIN userConnections /\ <<u, userConnections[u]>> \notin broken

\* a and b are sessions that name each other as partner.
Mutual(st, a, b) ==
    /\ a \in DOMAIN RegistryIn(st) /\ b \in DOMAIN RegistryIn(st)
    /\ PartnerIn(st, a) = b /\ PartnerIn(st, b) = a

\* The sends of one event type to one client in a handler's output.
SentTo(st, u, type) ==
    {st.out[i] : i \in {j \in 1..Len(st.out) : st.out[j].to = u /\ st.out[j].msg.type = type}}

Count(arr, x) == Cardinality({i \in 1..Len(arr) : arr[i] = x})

\* The ids waiting other than a and b.
OthersWaiting(a, b) == {waitingUsers[i] : i \in 1..Len(waitingUsers)} \ {a, b}

\* ==================================================================== claims
Sessions == DOMAIN Registry

\* C1: partner pointers are symmetric: for all sessions A and B, if A's partner
\* is B then B's partner is A, in every state between two handlers.
C1_PartnerSymmetric ==
    \A a \in Sessions, b \in Sessions : PartnerOf(a) = b => PartnerOf(b) = a

\* C2: no client id is in the waiting queue while its session has a partner.
C2_NotQueuedWhilePaired ==
    \A a \in Sessions : PartnerOf(a) # None => ~Includes(waitingUsers, a)

\* C3: a client id is in the waiting queue if and only if its session exists and
\* has no partner.
C3_QueuedIffUnpaired ==
    \A a \in Ids : Includes(waitingUsers, a) <=> (a \in Sessions /\ PartnerOf(a) = None)

\* C4: a pair of clients that both sent ready while partnered with each other:
\* exactly one of them has received start-call with initiator = true and the
\* other start-call with initiator = false.
C4_ExactlyOneInitiator ==
    \A a \in Sessions, b \in Sessions :
        (Mutual(Cur, a, b) /\ a \in sentReady /\ b \in sentReady) =>
            \/ (<<a, TRUE>> \in startCalls /\ <<b, FALSE>> \in startCalls
                /\ <<a, FALSE>> \notin startCalls /\ <<b, TRUE>> \notin startCalls)
            \/ (<<b, TRUE>> \in startCalls /\ <<a, FALSE>> \in startCalls
                /\ <<b, FALSE>> \notin startCalls /\ <<a, TRUE>> \notin startCalls)

\* C5: FIFO pairing: a pass over waiting live clients [a, b, c, d, ...] pairs the
\* 1st with the 2nd, the 3rd with the 4th, and so on (never a with c); an odd last
\* one stays in the queue without partner.
C5_FifoPairing ==
    pass.state = "done" =>
        LET q == pass.input
            odd == Len(q) % 2 = 1
        IN  /\ \A k \in 1..(Len(q) \div 2) : Mutual(Cur, q[2*k - 1], q[2*k])
            /\ waitingUsers = IF odd THEN <<q[Len(q)]>> ELSE <<>>
            /\ odd => PartnerOf(q[Len(q)]) = None

C5_Witness ==
    /\ pass.state = "done" /\ Len(pass.input) = 4
    /\ Mutual(Cur, pass.input[1], pass.input[2]) /\ Mutual(Cur, pass.input[3], pass.input[4])
    /\ PartnerOf(pass.input[1]) # pass.input[3]

\* A repeated join leaves at most one queue entry for u and u's partnership as it was.
Idempotent(u, st) ==
    /\ Count(st.waitingUsers, u) <= 1
    /\ HasPartner(u) => (u \in DOMAIN RegistryIn(st) /\ PartnerIn(st, u) = PartnerOf(u))

\* C6: join or channel-open performed again for a client id that has a session
\* adds no second queue entry for it and does not change its partnership.
C6_IdempotentJoin ==
    \A u \in Sessions :
        /\ (variant # "ws" /\ OpenEnabled(u)) => Idempotent(u, OpenResult(u))
        /\ SignalEnabled(u) => Idempotent(u, SignalResult(u, "join", None))

\* A written pairing notice for `to` naming `partnerId` is among the sends.
Found(sends, to, partnerId) ==
    \E i \in 1..Len(sends) :
        /\ sends[i].to = to /\ sends[i].result = "written"
        /\ sends[i].msg.type = "user-connected" /\ sends[i].msg.partnerId = partnerId

\* C7: from the empty system, after clients u1, u2, u3 opened their channel in
\* that order, u1 and u2 are partners of each other, both were written the pairing
\* notice naming the other, and u3 is alone in the queue with no partner.
C7_ThreeJoin ==
    (scen # Off /\ Len(scen) = ScenarioLen) =>
        /\ Mutual(Cur, scen[1], scen[2])
        /\ Found(scenOut, scen[1], scen[2]) /\ Found(scenOut, scen[2], scen[1])
        /\ scen[3] \in Sessions /\ PartnerOf(scen[3]) = None
        /\ waitingUsers = <<scen[3]>>

C7_Witness ==
    /\ scen # Off /\ Len(scen) = ScenarioLen
    /\ Mutual(Cur, scen[1], scen[2]) /\ waitingUsers = <<scen[3]>>

C9_CloseReleasesPartner ==
    \A u \in Sessions :
        (HasPartner(u) /\ Mutual(Cur, u, PartnerOf(u)) /\ CloseEnabled(u)
         /\ Reachable(PartnerOf(u))) =>
            LET p == PartnerOf(u)
                st == CloseResult(u)
            IN  /\ \E e \in SentTo(st, p, "partner-disconnected") : e.result = "written"
                /\ PartnerIn(st, p) # u
                /\ Includes(st.waitingUsers, p) \/ PartnerIn(st, p) # None
                /\ u \notin DOMAIN RegistryIn(st)

\* C10: whenever the pairing pass of a handler forms a pair (a, b), it sends the
\* pairing notice to a naming b and to b naming a, and it sends no pairing
\* notice to a client it did not pair.
C10_PartnerFoundBoth ==
    \A st \in HandlerResults :
        /\ \A a \in Ids, b \in Ids :
              (Mutual(st, a, b) /\ ~Mutual(Cur, a, b)) =>
                  /\ \E e \in SentTo(st, a, "user-connected") : e.msg.partnerId = b
                  /\ \E e \in SentTo(st, b, "user-connected") : e.msg.partnerId = a
        /\ \A i \in 1..Len(st.out) :
              st.out[i].msg.type = "user-connected" =>
                  Mutual(st, st.out[i].to, st.out[i].msg.partnerId)

\* C11: an offer, answer or ice-candidate of A whose session has partner B is sent
\* to B only, on B's current channel, with the same type, the sender's payload and
\* from = A; with a payload and a reachable B it is written exactly once.
C11_RelayToPartnerOnly ==
    \A u \in Sessions, type \in RelayTypes, data \in Payloads :
        (HasPartner(u) /\ SignalEnabled(u)) =>
            LET p == PartnerOf(u)
                st == SignalResult(u, type, data)
            IN  /\ \A i \in 1..Len(st.out) :
                      /\ st.out[i].to = p
                      /\ st.out[i].msg = Msg(type, None, u, data)
                      /\ (st.out[i].result = "written" /\ variant # "ws")
                            => st.out[i].ch = userConnections[p]
                /\ (Reachable(p) /\ data # None) =>
                      (Len(st.out) = 1 /\ st.out[1].result = "written")

C11_Witness ==
    \E u \in Sessions :
        /\ HasPartner(u) /\ SignalEnabled(u) /\ Reachable(PartnerOf(u))
        /\ \E e \in SentTo(SignalResult(u, "offer", 1), PartnerOf(u), "offer") :
              e.result = "written" /\ e.msg.from = u /\ e.msg.body = 1

\* C12: forwarding to a partner that has no open channel is a silent no-op: the
\* sender is answered success (a WebSocket sender is answered nothing), the
\* registry, the queue and the connections stay as they are, nothing is written,
\* and a channel the partner opens afterwards is written none of it.
C12_NoStoreAndForward ==
    \A u \in Sessions, type \in RelayTypes, data \in Payloads :
        (HasPartner(u) /\ SignalEnabled(u) /\ NoChannel(PartnerOf(u))) =>
            LET p == PartnerOf(u)
                st == SignalResult(u, type, data)
            IN  /\ SignalResponse(u) = IF variant = "ws" THEN "none" ELSE "ok"
                /\ SameState(st)
                /\ \A i \in 1..Len(st.out) : st.out[i].result = "dropped"
                /\ (variant # "ws" /\ NewChan(p) \in Chans) =>
                      \A i \in 1..Len(OpenAfter(st, p).out) :
                          OpenAfter(st, p).out[i].msg.type \notin RelayTypes

C12_Witness ==
    \E u \in Sessions :
        /\ HasPartner(u) /\ SignalEnabled(u) /\ NoChannel(PartnerOf(u))
        /\ variant # "ws" /\ NewChan(PartnerOf(u)) \in Chans
        /\ \E e \in SentTo(SignalResult(u, "offer", 1), PartnerOf(u), "offer") :
              e.result = "dropped"
        /\ Len(OpenAfter(SignalResult(u, "offer", 1), PartnerOf(u)).out) > 0

\* C13: a signal of any type whose sender id has no session is answered with the
\* not-found error, writes nothing to any channel and changes no state.
C13_SessionNotFound ==
    \A u \in Ids, type \in SignalTypes :
        (u \notin Sessions /\ SignalEnabled(u)) =>
            \A data \in DataFor(type) :
                LET st == SignalResult(u, type, data)
                IN  /\ SignalResponse(u) = "User not found"
                    /\ st.out = <<>>
                    /\ SameState(st)

\* C14: a join signal from an id whose session is absent creates the session with
\* no partner, appends the id to the queue and runs a pairing pass: with nobody
\* waiting the id waits alone, with one client waiting the two are paired.
C14_JoinCreatesSession ==
    \A u \in Ids :
        (u \notin Sessions /\ SignalEnabled(u) /\ ~Includes(waitingUsers, u)) =>
            LET st == SignalResult(u, "join", None)
            IN  /\ u \in DOMAIN RegistryIn(st)
                /\ waitingUsers = <<>> =>
                      (PartnerIn(st, u) = None /\ st.waitingUsers = <<u>>)
                /\ \A w \in Sessions :
                      (waitingUsers = <<w>> /\ PartnerOf(w) = None) =>
                          (Mutual(st, w, u) /\ st.waitingUsers = <<>>)

\* Every write of the handler result st is on the most recently opened pending
\* request of the client it is for.
OnNewestChannel(st) ==
    \A i \in 1..Len(st.out) :
        st.out[i].result \in {"written", "failed"} => st.out[i].ch = NumOpen(st.out[i].to)

\* C15: a client id has at most one channel; a new open replaces the association,
\* every later event for the id is written on the most recently opened channel,
\* never on an earlier one, and the end of an earlier request does not take the
\* association away from the most recent one.
C15_MostRecentChannel ==
    variant # "ws" =>
        /\ \A u \in Ids : OpenEnabled(u) =>
              /\ u \in DOMAIN OpenResult(u).userConnections
              /\ OpenResult(u).userConnections[u] = NewChan(u)
        /\ \A u \in DOMAIN userConnections : userConnections[u] = NumOpen(u)
        /\ \A u \in Ids, type \in SignalTypes : \A data \in DataFor(type) :
              OnNewestChannel(SignalResult(u, type, data))
        /\ \A u \in Ids : CloseEnabled(u) => OnNewestChannel(CloseResult(u))
        /\ \A u \in DOMAIN userConnections, c \in Chans :
              <<u, c>> \in openReqs => OnNewestChannel(HeartbeatResult(u, c))
        /\ \A u \in DOMAIN userConnections :
              NumOpen(u) >= 2 => u \in DOMAIN CloseResult(u).userConnections

\* The clients a write of the handler result st failed for.
FailedFor(st) == {st.out[i].to : i \in {j \in 1..Len(st.out) : st.out[j].result = "failed"}}

\* C16: when a write to a client's channel fails, the client is closed: its channel
\* association and its session are removed, and the partner it had is released
\* and re-enqueued (waiting, or paired anew by the pairing pass).
C16_WriteFailureCloses ==
    \A st \in HandlerResults : \A x \in FailedFor(st) :
        /\ x \notin DOMAIN st.userConnections
        /\ x \notin DOMAIN RegistryIn(st)
        /\ \A p \in Sessions :
              (Mutual(Cur, x, p) /\ p \in DOMAIN RegistryIn(st)) =>
                  /\ PartnerIn(st, p) # x
                  /\ Includes(st.waitingUsers, p) \/ PartnerIn(st, p) # None

\* C17: close is idempotent: the close of a client processed a second time leaves
\* the registry (and so every pairing), the queue and the connections as the
\* first close left them and writes to nobody; the close of an id that has no
\* session completes, and leaves the id without session, queue entry or connection.
\* This is about the two SSE servers, where one id can have several requests and
\* so several close events; a WebSocket emits 'close' once, for an id that no
\* other socket has.
C17_CloseIdempotent ==
    variant # "ws" =>
    /\ \A u \in Ids : CloseEnabled(u) =>
          LET once == CloseResult(u)
              twice == CloseAfter(once, u)
          IN  SameTables(once, twice) /\ twice.out = <<>>
    /\ \A u \in Ids \ Sessions :
          LET st == CloseAfter(Cur, u)
          IN  /\ u \notin DOMAIN RegistryIn(st)
              /\ ~Includes(st.waitingUsers, u)
              /\ u \notin DOMAIN st.userConnections
              /\ \A v \in Sessions : v \in DOMAIN RegistryIn(st) /\ PartnerIn(st, v) = PartnerIn(Cur, v)

\* A paired client closes (its partner is released and told) while another id
\* has no session.
C17_Witness ==
    \E u \in Sessions : /\ variant # "ws"
                         /\ NumOpen(u) >= 2
                         /\ CloseEnabled(u) /\ HasPartner(u)
                         /\ CloseResult(u).out # <<>>
                         /\ Ids \ Sessions # {}

\* The types no case of the server's switch names ('join' is one of them in the
\* WebSocket server).
UnknownTypes == IF variant = "ws" THEN {"join", "ready", "bogus"} ELSE {"ready", "bogus"}

\* C18: a signal of an unknown type from a client with a session changes no
\* session's partner, nor the queue, nor the connections, writes to nobody, and
\* is answered with the normal acknowledgment (a WebSocket message has no
\* answer: no error is sent back).
C18_UnknownTypeIgnored ==
    \A u \in Sessions, type \in UnknownTypes :
        SignalEnabled(u) =>
            LET st == SignalResult(u, type, None)
            IN  /\ SameState(st)
                /\ st.out = <<>>
                /\ SignalResponse(u) = IF variant = "ws" THEN "none" ELSE "ok"

\* A paired client, with a third client waiting, sends a signal of unknown type.
C18_Witness ==
    \E u \in Sessions : /\ SignalEnabled(u) /\ HasPartner(u)
                         /\ Reachable(PartnerOf(u))
                         /\ waitingUsers # <<>>
                         /\ SignalResult(u, "bogus", None).out = <<>>

\* C19: an offer, answer or ice-candidate that lacks its payload is rejected:
\* the caller gets an error, nothing is forwarded to the partner, and the
\* registry, the queue and the connections stay as they are.
C19_MissingPayloadRejected ==
    \A u \in Sessions, type \in RelayTypes :
        (HasPartner(u) /\ SignalEnabled(u)) =>
            LET st == SignalResult(u, type, None)
            IN  /\ SignalResponse(u) \notin {"ok", "none"}
                /\ st.out = <<>>
                /\ SameState(st)

\* The acknowledgment of an open: 'connected' on an event stream, 'user-id' on a
\* WebSocket.
AckType == IF variant = "ws" THEN "user-id" ELSE "connected"

\* The writes of the handler result st that went to channel c of client u, by
\* their position in the handler's output.
WritesOn(st, u, c) == {i \in 1..Len(st.out) : st.out[i].to = u /\ st.out[i].ch = c}

\* The channel an open by u creates (a WebSocket is its client's only channel).
OpenedChan(u) == IF variant = "ws" THEN 1 ELSE NewChan(u)

\* C20: on every open, the acknowledgment is written to the new channel, and
\* it is the first event written to it: every other write of the open handler
\* to that channel comes later and is not an acknowledgment.
C20_ConnectedFirst ==
    \A u \in Ids : OpenEnabled(u) =>
        LET st == OpenResult(u)
            mine == WritesOn(st, u, OpenedChan(u))
        IN  /\ mine # {}
            /\ \A i \in mine :
                  IF \A j \in mine : i <= j
                  THEN st.out[i].msg.type = AckType /\ st.out[i].result = "written"
                  ELSE st.out[i].msg.type # AckType

\* A client opens while another waits: the pairing notice follows the
\* acknowledgment on the new channel.
C20_Witness ==
    \E u \in Ids : /\ OpenEnabled(u)
                    /\ Cardinality(WritesOn(OpenResult(u), u, OpenedChan(u))) >= 2
                    /\ \E i \in WritesOn(OpenResult(u), u, OpenedChan(u)) :
                          OpenResult(u).out[i].msg.type = "user-connected"

\* The event types of the protocol's contract.
ContractTypes == {"connected", "partner-found", "start-call", "offer", "answer",
                  "ice-candidate", "partner-disconnected"}

\* The event types the client of src/unnamed/part_002 waits for before it acts.
ClientWaits == {"partner-found", "start-call"}

\* The type literals of the running server's writes.
ServerEmits ==
    IF variant = "ws"
    THEN {"user-id", "user-connected", "offer", "answer", "ice-candidate", "partner-disconnected"}
    ELSE {"connected", "heartbeat", "user-connected", "offer", "answer", "ice-candidate",
          "partner-disconnected"}

\* The contract's name for an event the code names differently.
ContractName(type) ==
    CASE type = "user-connected" -> "partner-found"
      [] type = "user-id" -> "connected"
      [] OTHER -> type

\* The types of the events the handler result st wrote to a channel.
WrittenTypes(st) ==
    {st.out[i].msg.type : i \in {j \in 1..Len(st.out) : st.out[j].result = "written"}}

\* Every result of a handler or of a heartbeat tick.
AllResults == HandlerResults \cup {HeartbeatResult(r[1], r[2]) : r \in openReqs}

\* C21: every event written to a channel has a type of the contract (under the
\* contract's names), the server writes no type beyond its literals, and every
\* type the client waits for is one the server can emit.
C21_EventTypes ==
    /\ \A st \in AllResults :
          /\ WrittenTypes(st) \subseteq ServerEmits
          /\ \A t \in WrittenTypes(st) : ContractName(t) \in ContractTypes
    /\ ClientWaits \subseteq {ContractName(t) : t \in ServerEmits}

\* The registered clients that have a channel and no partner.
UnpairedOpen == {u \in Sessions : ~NoChannel(u) /\ PartnerOf(u) = None}

\* C22: between handlers at most one registered client with an open channel is
\* unpaired; two clients that connected to an empty server are paired with
\* each other by the second connection.
C22_QuiescentPairing ==
    /\ Cardinality(UnpairedOpen) <= 1
    /\ (scen # Off /\ Len(scen) = 2 /\ scen[1] # scen[2]) => Mutual(Cur, scen[1], scen[2])

\* The only waiting id has no session, and u, which has no partner, is about
\* to open: the pass of the open pops the missing id and u together.
PopsMissingWith(u) ==
    /\ OpenEnabled(u)
    /\ Len(waitingUsers) = 1
    /\ waitingUsers[1] # u
    /\ waitingUsers[1] \notin Sessions
    /\ ~HasPartner(u)
    /\ variant = "sse" => u \notin Sessions

\* C23: when the pass pops a missing id together with a valid one, the missing
\* id is discarded and the valid one stays at the front of the queue, unpaired.
C23_ValidKeptAtFront ==
    \A u \in Ids : PopsMissingWith(u) =>
        LET st == OpenResult(u)
            missing == waitingUsers[1]
        IN  /\ st.waitingUsers # <<>> /\ st.waitingUsers[1] = u
            /\ ~Includes(st.waitingUsers, missing)
            /\ u \in DOMAIN RegistryIn(st) /\ PartnerIn(st, u) # missing
            /\ missing \notin DOMAIN RegistryIn(st)

\* The handler result st holds a pairing notice that names v as the partner.
NamedAsPartner(st, v) ==
    \E i \in 1..Len(st.out) :
        st.out[i].msg.type = "user-connected" /\ st.out[i].msg.partnerId = v

\* Client v was not written its own pairing notice: it had no channel.
NoticeDropped(st, v) ==
    \E i \in 1..Len(st.out) :
        /\ st.out[i].msg.type = "user-connected" /\ st.out[i].to = v
        /\ st.out[i].result = "dropped"

\* C26: a pairing pass pairs a client only with an id that has a live session
\* and whose channel is open when the pair is formed: the partner named in a
\* pairing notice has a session and was itself written its notice.
C26_PartnerLiveWithChannel ==
    \A st \in HandlerResults : \A v \in Ids :
        NamedAsPartner(st, v) =>
            /\ v \in DOMAIN RegistryIn(st)
            /\ ~NoticeDropped(st, v)

\* Client u has a superseded request: it opened a newer one, which is its
\* registered connection, while request 1 is still pending.
Superseded(u) ==
    /\ variant # "ws"
    /\ NumOpen(u) >= 2
    /\ u \in DOMAIN userConnections /\ userConnections[u] = NumOpen(u)

\* C27: when the close of a superseded request of u fires, the association of
\* u with its newer channel, the session of u and its partnership stay as
\* they are.
C27_SupersededCloseHarmless ==
    \A u \in Sessions : Superseded(u) =>
        LET st == CloseResult(u)
        IN  /\ u \in DOMAIN st.userConnections
            /\ st.userConnections[u] = userConnections[u]
            /\ u \in DOMAIN RegistryIn(st)
            /\ RegistryIn(st)[u] = Registry[u]

\* The client programs of the repository, by file, that talk to the running
\* server: App.jsx over the WebSocket, the others over SSE and /api/signal.
Clients ==
    IF variant = "ws" THEN {"App.jsx"} ELSE {"part_002", "part_003", "part_004", "part_005"}

\* handleWebSocketMessage / handleServerEvent / handleEvent: the signal the client
\* sends in reaction to a server event ("none": it sends nothing).
handleServerEvent(client, type) ==
    CASE type = "user-connected" /\ client \in {"App.jsx", "part_004", "part_005"} -> "offer"
      [] type = "user-connected" /\ client = "part_003" -> "ready"
      [] type = "partner-found" /\ client = "part_002" -> "ready"
      [] type = "offer" -> "answer"
      [] OTHER -> "none"

\* The handler result st told a that its partner is b, on a's channel.
ToldPartner(st, a, b) ==
    \E i \in 1..Len(st.out) :
        /\ st.out[i].to = a /\ st.out[i].result = "written"
        /\ st.out[i].msg.type = "user-connected" /\ st.out[i].msg.partnerId = b

\* C28: of the two clients of a freshly formed pair, whatever client program
\* each of them runs, at most one reacts to the pairing by creating and sending
\* an offer.
C28_OneOfferPerPair ==
    \A st \in HandlerResults : \A a \in Ids, b \in Ids :
        (a # b /\ ToldPartner(st, a, b) /\ ToldPartner(st, b, a)) =>
            \A ca \in Clients, cb \in Clients :
                ~(/\ handleServerEvent(ca, "user-connected") = "offer"
                  /\ handleServerEvent(cb, "user-connected") = "offer")

\* ------------- "db", await by await: src/server/server.js:315-423, 432-554, 572-610
\* What a step of a handler invocation leaves: the server state and the
\* invocation, suspended at its next await or finished (pc = "done").
Step(st, t) == [st |-> st, t |-> t]

\* pairUsers, from the loop test to the first await of an iteration: with two
\* ids waiting both are shifted and the first updateOne is issued; with fewer
\* the pass returns and, nothing being left to await, so does the handler.
pairLoopDb(st, t) ==
    IF Len(st.waitingUsers) >= 2
    THEN Step([st EXCEPT !.waitingUsers = SubSeq(st.waitingUsers, 3, Len(st.waitingUsers))],
              [t EXCEPT !.pc = "update1", !.user1 = st.waitingUsers[1],
                        !.user2 = st.waitingUsers[2]])
    ELSE Step(st, [t EXCEPT !.pc = "done", !.user1 = None, !.user2 = None])

\* pairUsers: the first updateOne of the iteration has resolved.
pairUpdate1(st, t) ==
    Step(updateOne(st, t.user1, t.user2, "connected"), [t EXCEPT !.pc = "update2"])

\* pairUsers: the second updateOne has resolved; both are notified, and the loop goes on.
pairUpdate2(st, t) ==
    LET s1 == updateOne(st, t.user2, t.user1, "connected")
        s2 == sendToUserDb(s1, t.user1, Msg("user-connected", t.user2, None, None))
        s3 == sendToUserDb(s2, t.user2, Msg("user-connected", t.user1, None, None))
    IN pairLoopDb(s3, t)

\* pairUsers: the catch block, entered when an updateOne of the iteration rejects.
pairCatch(st, t) ==
    [st EXCEPT !.waitingUsers = PushIfAbsent(PushIfAbsent(st.waitingUsers, t.user1), t.user2)]

\* pairUsers: an updateOne rejects; after the catch block the loop goes on.
pairThrows(st, t) == pairLoopDb(pairCatch(st, t), t)

\* The findOne of a handler has resolved.
\*   /api/events: the session document is there or not;
\*   'close' and 'next-user': with a partner in the document the partner is
\*   told and its update is issued; 'next-user' without partner, and any
\*   signal without document, are answered at once;
\*   'join': the status update is issued.
findOneDb(st, t) ==
    LET found == t.id \in DOMAIN st.UserSession
        partner == IF found THEN st.UserSession[t.id].partnerId ELSE None
    IN CASE t.op = "open" -> Step(st, [t EXCEPT !.pc = "save"])
         [] t.op \in {"close", "next-user"} /\ partner # None ->
              Step(sendToUserDb(st, partner, Msg("partner-disconnected", None, None, None)),
                   [t EXCEPT !.pc = "updatePartner", !.partner = partner])
         [] t.op = "close" /\ partner = None ->
              Step(st, [t EXCEPT !.pc = "updateSelf"])
         [] t.op = "join" /\ found -> Step(st, [t EXCEPT !.pc = "updateSelf"])
         [] OTHER -> Step(st, [t EXCEPT !.pc = "done"])

\* /api/events: userSession.save() has resolved; connected is written, the
\* response is stored, the id is enqueued and pairUsers is entered.
saveDb(st, t) ==
    LET s1 == IF t.id \in DOMAIN st.UserSession
              THEN updateStatus(st, t.id, "waiting")
              ELSE [st EXCEPT !.UserSession = MapSet(st.UserSession, t.id,
                                    [partnerId |-> None, status |-> "waiting"])]
        s2 == [s1 EXCEPT !.out = Append(s1.out,
                     Sent(t.id, NewChan(t.id), "written", Msg("connected", None, None, None)))]
        s3 == [s2 EXCEPT !.userConnections = MapSet(s2.userConnections, t.id, NewChan(t.id)),
                         !.waitingUsers = PushIfAbsent(s2.waitingUsers, t.id)]
    IN pairLoopDb(s3, t)

\* 'close' and 'next-user': the update of the partner's document has resolved;
\* the partner is enqueued and the update of the own document is issued.
updatePartnerDb(st, t) ==
    LET s1 == updateOne(st, t.partner, None, "waiting")
    IN Step([s1 EXCEPT !.waitingUsers = PushIfAbsent(s1.waitingUsers, t.partner)],
            [t EXCEPT !.pc = "updateSelf"])

\* The update of the handler's own document has resolved, and pairUsers is
\* entered: 'close' marks it disconnected; 'next-user' and 'join' make it
\* waiting and enqueue the id.
updateSelfDb(st, t) ==
    CASE t.op = "close" -> pairLoopDb(updateOne(st, t.id, None, "disconnected"), t)
      [] t.op = "next-user" ->
           LET s1 == updateOne(st, t.id, None, "waiting")
           IN pairLoopDb([s1 EXCEPT !.waitingUsers = PushIfAbsent(s1.waitingUsers, t.id)], t)
      [] OTHER ->
           LET s1 == updateStatus(st, t.id, "waiting")
           IN pairLoopDb([s1 EXCEPT !.waitingUsers = PushIfAbsent(s1.waitingUsers, t.id)], t)

\* req.on('close'), up to its first await: the stores in memory are cleared.
closeSyncDb(st, userId) ==
    [st EXCEPT !.userConnections = MapDelete(st.userConnections, userId),
               !.waitingUsers = RemoveWaiting(st.waitingUsers, userId)]

\* The invocations in flight, and those inside an iteration of pairUsers.
InFlight == {s \in Slots : tasks[s].op # "idle"}
InPass == {s \in Slots : tasks[s].pc \in {"update1", "update2"}}

\* A new invocation takes the first free slot.
FreeSlot(s) == tasks[s].op = "idle" /\ \A r \in Slots : r < s => tasks[r].op # "idle"

\* The step r of the invocation in slot s becomes the next state.  The 'close'
\* listener of /api/events is registered when the handler is through.
Commit(s, r, reqs) ==
    /\ UserSession' = r.st.UserSession
    /\ waitingUsers' = r.st.waitingUsers
    /\ userConnections' = r.st.userConnections
    /\ tasks' = [tasks EXCEPT ![s] = IF r.t.pc = "done" THEN IdleTask ELSE r.t]
    /\ openReqs' = IF r.t.pc = "done" /\ r.t.op = "open"
                   THEN reqs \cup {<<r.t.id, 1>>} ELSE reqs
    /\ UNCHANGED <<variant, users, usersOrder, broken, scen, scenOut, sentReady,
                   startCalls, pass, browser>>

\* GET /api/events of a new client arrives (reconnects are left to the
\* specifications in which handlers run one at a time).
AsyncOpen(s, u) ==
    /\ FreeSlot(s)
    /\ u \notin DOMAIN UserSession
    /\ \A r \in Slots : ~(tasks[r].op = "open" /\ tasks[r].id = u)
    /\ Commit(s, Step(Cur, Task("open", u, "findOne")), openReqs)

\* The 'close' event of the client's request fires.
AsyncClose(s, u) ==
    /\ FreeSlot(s)
    /\ <<u, 1>> \in openReqs
    /\ Commit(s, Step(closeSyncDb(Cur, u), Task("close", u, "findOne")), openReqs \ {<<u, 1>>})

\* POST /api/signal with type 'next-user' or 'join' arrives from a client
\* that holds its event stream.
AsyncSignal(s, u, type) ==
    /\ FreeSlot(s)
    /\ type \in {"next-user", "join"}
    /\ u \in DOMAIN userConnections
    /\ Commit(s, Step(Cur, Task(type, u, "findOne")), openReqs)

AsyncFindOne(s) == tasks[s].pc = "findOne" /\ Commit(s, findOneDb(Cur, tasks[s]), openReqs)
AsyncSave(s) == tasks[s].pc = "save" /\ Commit(s, saveDb(Cur, tasks[s]), openReqs)
AsyncUpdatePartner(s) == tasks[s].pc = "updatePartner" /\ Commit(s, updatePartnerDb(Cur, tasks[s]), openReqs)
AsyncUpdateSelf(s) == tasks[s].pc = "updateSelf" /\ Commit(s, updateSelfDb(Cur, tasks[s]), openReqs)
AsyncUpdate1(s) == tasks[s].pc = "update1" /\ Commit(s, pairUpdate1(Cur, tasks[s]), openReqs)
AsyncUpdate2(s) == tasks[s].pc = "update2" /\ Commit(s, pairUpdate2(Cur, tasks[s]), openReqs)

\* The storage rejects the updateOne the pass waits for.
AsyncThrows(s) == s \in InPass /\ Commit(s, pairThrows(Cur, tasks[s]), openReqs)

InitAsync ==
    /\ variant = "db"
    /\ users = EmptyMap
    /\ usersOrder = <<>>
    /\ UserSession = EmptyMap
    /\ waitingUsers = <<>>
    /\ userConnections = EmptyMap
    /\ openReqs = {}
    /\ broken = {}
    /\ scen = Off
    /\ scenOut = <<>>
    /\ sentReady = {}
    /\ startCalls = {}
    /\ pass = [state |-> "idle", input |-> <<>>]
    /\ tasks = [s \in Slots |-> IdleTask]
    /\ browser = IdleBrowser

NextAsync ==
    \/ \E s \in Slots, u \in Ids : AsyncOpen(s, u)
    \/ \E s \in Slots, u \in Ids : AsyncClose(s, u)
    \/ \E s \in Slots, u \in Ids, type \in {"next-user", "join"} : AsyncSignal(s, u, type)
    \/ \E s \in Slots : AsyncFindOne(s)
    \/ \E s \in Slots : AsyncSave(s)
    \/ \E s \in Slots : AsyncUpdatePartner(s)
    \/ \E s \in Slots : AsyncUpdateSelf(s)
    \/ \E s \in Slots : AsyncUpdate1(s)
    \/ \E s \in Slots : AsyncUpdate2(s)
    \/ \E s \in Slots : AsyncThrows(s)

SpecAsync == InitAsync /\ [][NextAsync]_vars

\* The pass of slot s has written user1's partner and not yet user2's.
HalfPaired(s) ==
    /\ tasks[s].pc = "update2"
    /\ tasks[s].user1 \in DOMAIN UserSession
    /\ UserSession[tasks[s].user1].partnerId = tasks[s].user2
    /\ ~(/\ tasks[s].user2 \in DOMAIN UserSession
          /\ UserSession[tasks[s].user2].partnerId = tasks[s].user1)

\* C24: pairing is atomic for the other handlers: in no state in which a handler
\* can start or resume has a pass written the partner of the first id of a pair
\* without that of the second.
C24_PairingAtomic == \A s \in Slots : ~HalfPaired(s)

\* Two passes in flight hold the same id.
SharedId(s, r) ==
    {tasks[s].user1, tasks[s].user2} \cap {tasks[r].user1, tasks[r].user2} # {}

\* C25: no waiting id is taken by two passes: the pairs that two passes in
\* flight have shifted share no id, and no pass has shifted an id twice.
C25_NoDoubleClaim ==
    /\ \A s \in InPass, r \in InPass : s # r => ~SharedId(s, r)
    /\ \A s \in InPass : tasks[s].user1 # tasks[s].user2

\* The session of a points to b.
PointsTo(st, a, b) == a \in DOMAIN st.UserSession /\ st.UserSession[a].partnerId = b

\* C30: when the second updateOne of a pair rejects after the first went
\* through, the attempt leaves nothing behind: after the catch block neither
\* id points to the other, both are in the queue, and nothing was written.
C30_FailedPairLeavesNothing ==
    \A s \in Slots : tasks[s].pc = "update2" =>
        LET a == tasks[s].user1
            b == tasks[s].user2
            st == pairCatch(Cur, tasks[s])
        IN  /\ ~PointsTo(st, a, b) /\ ~PointsTo(st, b, a)
            /\ Includes(st.waitingUsers, a) /\ Includes(st.waitingUsers, b)
            /\ st.out = <<>>

\* ------------------------- one pairing pass of the MongoDB variant, await by await
\* The handler that enqueued the last waiting id enters pairUsers.
PassStart(s) ==
    /\ FreeSlot(s)
    /\ InFlight = {}
    /\ pass.state = "drawn"
    /\ Len(waitingUsers) >= 2
    /\ Commit(s, pairLoopDb(Cur, Task("join", waitingUsers[Len(waitingUsers)], "updateSelf")),
              openReqs)

InitPass == InitPair /\ variant = "db"

NextPass ==
    \/ \E s \in Slots : PassStart(s)
    \/ \E s \in Slots : AsyncUpdate1(s)
    \/ \E s \in Slots : AsyncUpdate2(s)
    \/ \E s \in Slots : AsyncThrows(s)

\* The event loop resumes a pass whose awaited promise has settled.
SpecPass == InitPass /\ [][NextPass]_vars /\ WF_vars(NextPass)

\* C29: every pairing pass terminates: a pass that is inside its loop gets out
\* of it, also when updates of the storage fail.
C29_PassTerminates == (InPass # {}) ~> (InPass = {})

\* ------------------------------------------------------ the frame of a skip
\* C31: a skip by u touches only u and the partner u has when the skip is
\* applied: no pairing between two other clients is broken, and no client
\* other than the two is sent partner-disconnected.  This holds for a skip
\* handled in one piece, and for a skip that resumes after an await with the
\* session it read before (the partner of u is then the one its session
\* document names when the update of the partner's document is applied).
C31_SkipLocal ==
    LET PairsApart(st, u, p) ==
            {ab \in (DOMAIN RegistryIn(st) \ {u, p}) \X (DOMAIN RegistryIn(st) \ {u, p}) :
                ab[1] # ab[2] /\ Mutual(st, ab[1], ab[2])}
        SkipKeeps(st, u, p) ==
            /\ PairsApart(Cur, u, p) \subseteq PairsApart(st, u, p)
            /\ \A v \in Ids \ {u, p} : SentTo(st, v, "partner-disconnected") = {}
        PartnerNow(u) == IF u \in DOMAIN UserSession THEN UserSession[u].partnerId ELSE None
    IN  /\ \A u \in Sessions :
              (InFlight = {} /\ HasPartner(u) /\ SignalEnabled(u)) =>
                  SkipKeeps(SignalResult(u, "next-user", None), u, PartnerOf(u))
        /\ \A s \in Slots :
              (tasks[s].op = "next-user" /\ tasks[s].pc = "updatePartner") =>
                  SkipKeeps(updatePartnerDb(Cur, tasks[s]).st, tasks[s].id,
                            PartnerNow(tasks[s].id))

\* ------------------------------------------------- what a skip tells the partner
\* The places in the handler's output where an event of the type is written to v.
WrittenAt(st, v, type) ==
    {i \in 1..Len(st.out) :
        st.out[i].to = v /\ st.out[i].msg.type = type /\ st.out[i].result = "written"}

\* C32: on a skip by u with partner p, exactly one partner-disconnected is sent
\* to p (and written, when p has a working channel), before any pairing notice
\* for p of the same handling; after the skip both have been enqueued again and
\* the pairing pass has run: u, and p when it has a session, waits without
\* partner or was paired by the pass, and fewer than two ids are left waiting.
C32_SkipNoticeOnceFirst ==
    \A u \in Sessions :
        (HasPartner(u) /\ SignalEnabled(u)) =>
            LET p == PartnerOf(u)
                st == SignalResult(u, "next-user", None)
                SentAt(v, type) ==
                    {i \in 1..Len(st.out) : st.out[i].to = v /\ st.out[i].msg.type = type}
                Requeued(x) ==
                    /\ x \in DOMAIN RegistryIn(st)
                    /\ IF Includes(st.waitingUsers, x) THEN PartnerIn(st, x) = None
                       ELSE PartnerIn(st, x) # None /\ NamedAsPartner(st, x)
            IN  /\ Cardinality(SentAt(p, "partner-disconnected")) = 1
                /\ Reachable(p) => Cardinality(WrittenAt(st, p, "partner-disconnected")) = 1
                /\ \A i \in SentAt(p, "partner-disconnected"),
                      j \in SentAt(p, "user-connected") : i < j
                /\ Requeued(u)
                /\ p \in DOMAIN Registry => Requeued(p)
                /\ Len(st.waitingUsers) < 2

C32_Witness ==
    \E u \in Sessions :
        /\ HasPartner(u) /\ SignalEnabled(u) /\ Mutual(Cur, u, PartnerOf(u))
        /\ Reachable(PartnerOf(u))
        /\ LET st == SignalResult(u, "next-user", None)
           IN  /\ WrittenAt(st, PartnerOf(u), "partner-disconnected") # {}
               /\ WrittenAt(st, PartnerOf(u), "user-connected") # {}
               /\ PartnerIn(st, PartnerOf(u)) \notin {None, u}
               /\ st.waitingUsers = <<u>>

\* ----------------------------------------------------- the pass after a removal
\* The handler sent a the pairing notice that names b.
SentPartner(st, a, b) ==
    \E i \in 1..Len(st.out) :
        /\ st.out[i].to = a
        /\ st.out[i].msg.type = "user-connected" /\ st.out[i].msg.partnerId = b

\* C33: when the channel of u, paired with p, closes while exactly one other
\* client w is waiting, the close handler itself pairs p with w: in its result
\* the two name each other, neither is left in the queue, and each was sent the
\* pairing notice naming the other (written, when it has a working channel).
C33_CloseRepairsPartner ==
    \A u \in Sessions, w \in Sessions :
        (/\ CloseEnabled(u) /\ HasPartner(u) /\ Mutual(Cur, u, PartnerOf(u))
         /\ w \notin {u, PartnerOf(u)} /\ waitingUsers = <<w>>) =>
            LET p == PartnerOf(u)
                st == CloseResult(u)
            IN  /\ Mutual(st, p, w)
                /\ SentPartner(st, p, w) /\ SentPartner(st, w, p)
                /\ Reachable(p) => ToldPartner(st, p, w)
                /\ Reachable(w) => ToldPartner(st, w, p)
                /\ ~Includes(st.waitingUsers, p) /\ ~Includes(st.waitingUsers, w)

C33_Witness ==
    \E u \in Sessions, w \in Sessions :
        /\ CloseEnabled(u) /\ HasPartner(u) /\ Mutual(Cur, u, PartnerOf(u))
        /\ w \notin {u, PartnerOf(u)} /\ waitingUsers = <<w>>
        /\ Mutual(CloseResult(u), PartnerOf(u), w)
        /\ u \notin DOMAIN CloseResult(u).userConnections

\* ------------------------------------------------------ the queue as a set
\* C34: the waiting queue never holds the same id twice, and the pushes made
\* without a membership test, in the two in-memory servers, never push an id
\* that is already waiting: next-user and 'close' push an id that has a partner,
\* or the partner itself (neither is in the queue when the handler starts, and
\* the two differ); the registration pushes an id that is not a key of users
\* (no such id waits).
C34_QueueNoDuplicates ==
    /\ \A i \in 1..Len(waitingUsers), j \in 1..Len(waitingUsers) :
          waitingUsers[i] = waitingUsers[j] => i = j
    /\ variant # "db" =>
          /\ \A u \in DOMAIN users : users[u].partner # None =>
                /\ ~Includes(waitingUsers, u)
                /\ ~Includes(waitingUsers, users[u].partner)
                /\ users[u].partner # u
          /\ \A i \in 1..Len(waitingUsers) : waitingUsers[i] \in DOMAIN users

\* A client of the in-memory servers skips while another waits: both pushes
\* of the skip are made without membership test, onto a queue that is not empty.
C34_Witness ==
    \E u \in Sessions :
        /\ variant # "db" /\ HasPartner(u) /\ SignalEnabled(u)
        /\ Len(waitingUsers) = 1
        /\ SignalResult(u, "next-user", None).waitingUsers = <<u>>

\* ------------------------------------------------------------ no self-pairing
\* C35: no client is its own partner: the partner of every session is another id.
C35_NoSelfPartner == \A u \in Sessions : PartnerOf(u) # u

\* A client that opened its event stream twice, and so reached the enqueue of
\* the open handler twice, has been paired by a pass.
C35_Witness ==
    \E u \in Sessions :
        /\ NumOpen(u) >= 2 /\ HasPartner(u)
        /\ Mutual(Cur, u, PartnerOf(u))

\* ------------------------------------------------------ a skip with no partner
\* C36: a skip from a client with no partner is a no-op: the registry, the queue
\* (no second entry for the sender) and the connections are as before, and
\* nothing is sent to any channel.
C36_SkipWithoutPartnerNoOp ==
    \A u \in Ids :
        (SignalEnabled(u) /\ ~HasPartner(u)) =>
            LET st == SignalResult(u, "next-user", None)
            IN  /\ SameState(st)
                /\ st.out = <<>>
                /\ Count(st.waitingUsers, u) = Count(waitingUsers, u)

\* A waiting client, alone in the queue and with an open channel, skips.
C36_Witness ==
    \E u \in Sessions :
        /\ SignalEnabled(u) /\ ~HasPartner(u) /\ Reachable(u)
        /\ waitingUsers = <<u>>
        /\ SignalResult(u, "next-user", None).waitingUsers = <<u>>

\* ------------------------------------------------ who is paired after a skip
\* C37: on a skip the skipped partner is enqueued before the skipper: when u
\* skips its partner p while exactly one other client w waits, the pass of the
\* skip pairs w with p, and u is left alone in the queue with no partner.
C37_SkippedPartnerFirst ==
    \A u \in Sessions, w \in Sessions :
        (/\ HasPartner(u) /\ SignalEnabled(u) /\ Mutual(Cur, u, PartnerOf(u))
         /\ w \notin {u, PartnerOf(u)} /\ waitingUsers = <<w>>) =>
            LET p == PartnerOf(u)
                st == SignalResult(u, "next-user", None)
            IN  /\ Mutual(st, w, p)
                /\ SentPartner(st, w, p) /\ SentPartner(st, p, w)
                /\ ~SentPartner(st, u, w) /\ ~SentPartner(st, w, u)
                /\ PartnerIn(st, u) = None
                /\ st.waitingUsers = <<u>>

C37_Witness ==
    \E u \in Sessions, w \in Sessions :
        /\ HasPartner(u) /\ SignalEnabled(u) /\ Mutual(Cur, u, PartnerOf(u))
        /\ w \notin {u, PartnerOf(u)} /\ waitingUsers = <<w>>
        /\ Reachable(w) /\ Reachable(PartnerOf(u))
        /\ ToldPartner(SignalResult(u, "next-user", None), w, PartnerOf(u))

\* ------------------------------- the browser client: src/unnamed/part_003
\* (the same code under other names in src/unnamed/part_002:548-674)
\* createPeerConnection: a pc that is there is closed, a new one is stored and
\* the buffer is reset.  The local media are taken to be initialized.
createPeerConnection(b) ==
    [b EXCEPT !.pc = "open", !.remoteDescription = FALSE,
              !.pendingCandidates = <<>>, !.added = <<>>]

\* handleOffer / handleAnswer after `await setRemoteDescription(...)`: the
\* for-of loop over the buffer starts; with an empty buffer it is over at once.
afterSetRemote(b) ==
    LET b1 == [b EXCEPT !.remoteDescription = TRUE] IN
    IF b1.pendingCandidates = <<>>
    THEN [b1 EXCEPT !.handler = "idle", !.flushed = 0]
    ELSE [b1 EXCEPT !.added = Append(b1.added, b1.pendingCandidates[1]),
                    !.flushed = 1, !.handler = "flush"]

\* The loop after `await addIceCandidate(...)`: the next buffered candidate is
\* added, or the loop is over and the buffer is replaced by [].
afterAdd(b) ==
    IF b.flushed < Len(b.pendingCandidates)
    THEN [b EXCEPT !.added = Append(b.added, b.pendingCandidates[b.flushed + 1]),
                   !.flushed = b.flushed + 1]
    ELSE [b EXCEPT !.pendingCandidates = <<>>, !.flushed = 0, !.handler = "idle"]

\* handleNewICECandidate
handleNewICECandidate(b, candidate) ==
    IF b.pc = "none" THEN b
    ELSE IF b.remoteDescription
         THEN [b EXCEPT !.added = Append(b.added, candidate),
                        !.taken = Append(b.taken, candidate)]
         ELSE [b EXCEPT !.pendingCandidates = Append(b.pendingCandidates, candidate),
                        !.taken = Append(b.taken, candidate)]

\* Only the browser moves; the server is not part of this specification.
BrowserStep(b) ==
    /\ browser' = b
    /\ UNCHANGED <<variant, users, usersOrder, UserSession, waitingUsers, userConnections,
                   openReqs, broken, scen, scenOut, sentReady, startCalls, pass, tasks>>

\* case 'start-call': createPeerConnection; the initiator goes on to createOffer.
BrowserStartCall(initiator) ==
    /\ browser.stage = "paired"
    /\ BrowserStep([createPeerConnection(browser) EXCEPT
                       !.stage = IF initiator THEN "offering" ELSE "started"])

\* case 'offer': createPeerConnection, then handleOffer up to its first await.
BrowserOffer ==
    /\ browser.stage \in {"paired", "started"}
    /\ BrowserStep([createPeerConnection(browser) EXCEPT
                       !.handler = "setRemote", !.stage = "described"])

\* case 'answer': handleAnswer up to its first await.
BrowserAnswer ==
    /\ browser.stage = "offering"
    /\ browser.pc = "open"
    /\ BrowserStep([browser EXCEPT !.handler = "setRemote", !.stage = "described"])

BrowserSetRemote == browser.handler = "setRemote" /\ BrowserStep(afterSetRemote(browser))

BrowserFlush == browser.handler = "flush" /\ BrowserStep(afterAdd(browser))

\* case 'ice-candidate': the partner's candidates arrive in the order they were
\* sent, before or after the partner's offer or answer.
BrowserIce ==
    /\ browser.next <= MaxCand
    /\ BrowserStep([handleNewICECandidate(browser, browser.next) EXCEPT
                       !.next = browser.next + 1])

\* case 'partner-disconnected': resetConnection; the call is over, and a
\* handler that waits finds peerConnectionRef.current null when it resumes.
BrowserPartnerLeft == browser # IdleBrowser /\ BrowserStep(IdleBrowser)

InitBrowser == Init /\ variant = "sse"

NextBrowser ==
    \/ \E initiator \in BOOLEAN : BrowserStartCall(initiator)
    \/ BrowserOffer
    \/ BrowserAnswer
    \/ BrowserSetRemote
    \/ BrowserFlush
    \/ BrowserIce
    \/ BrowserPartnerLeft

SpecBrowser == InitBrowser /\ [][NextBrowser]_vars

\* C38: in the client no candidate is added to the peer connection before the
\* remote description is set; the candidates that arrived earlier are buffered
\* and, once the remote description is set, added in arrival order, and the
\* buffer is empty when the handler that set it is through; none is lost while
\* a peer connection exists: every candidate that arrived while there was one
\* has been added or is in the buffer.
C38_CandidatesBufferedNotLost ==
    LET AddedAt(c) == IndexOf(browser.added, c)
    IN  /\ browser.added # <<>> => browser.remoteDescription
        /\ \A i \in 1..browser.flushed, j \in 1..browser.flushed :
              i < j => /\ AddedAt(browser.pendingCandidates[i]) > 0
                       /\ AddedAt(browser.pendingCandidates[i])
                              < AddedAt(browser.pendingCandidates[j])
        /\ (browser.remoteDescription /\ browser.handler = "idle") =>
              browser.pendingCandidates = <<>>
        /\ \A i \in 1..Len(browser.taken) :
              \/ Includes(browser.added, browser.taken[i])
              \/ Includes(browser.pendingCandidates, browser.taken[i])

=============================================================================
